---- MODULE Spec2Model ----
(***************************************************************************)
(* PyGraph (src/src/graph.rs): an undirected, optionally multigraph        *)
(* container over a petgraph StableGraph.  Node and edge handles are slot  *)
(* indices; removed slots are chained on a free list and reused.           *)
(*                                                                         *)
(* Handles are 0-based as in the source; slot h is element h+1 of the      *)
(* sequences below.                                                        *)
(***************************************************************************)
EXTENDS Integers, Sequences, FiniteSets, TLC

\* ---------------------------------------------------------------- bounds
MaxNodes == 3      \* most node slots a container of the model may hold
MaxEdges == 2      \* most edge slots a container of the model may hold
SlotNodes == 5     \* node slots in SpecSlots
SlotEdges == 2     \* edge slots in SpecSlots
ContractNodes == 4 \* node slots in SpecContract
ContractEdges == 4 \* edge slots in SpecContract
SubNodes == 4      \* node slots in SpecSubgraph
SubEdges == 3      \* edge slots in SpecSubgraph
SubstNodes == 5    \* node slots in SpecSubst
SubstEdges == 6    \* edge slots in SpecSubst
SubstSelf == 3     \* node and edge slots filled before a substitution in SpecSubst
ComposeNodes == 4  \* node slots in SpecCompose
ComposeEdges == 4  \* edge slots in SpecCompose
ComposeSelf == 2   \* node slots filled by add_node in SpecCompose
CodecNodes == 4    \* node slots in SpecCodec
CodecEdges == 3    \* edge slots in SpecCodec

\* ------------------------------------------------------------- constants
NoneW == 0         \* py.None() used as a payload
Vacant == 0 - 1    \* Option::None in a slot's weight: the slot is a hole
End == 0 - 1       \* NodeIndex::end() / EdgeIndex::end(), "no index"

NodeWeights == {1}             \* node payloads callers hand in
EdgeWeights == {NoneW, 1}      \* edge payloads callers hand in
Handles == 0 .. MaxNodes - 1   \* node handles callers hand in
EdgeHandles == 0 .. MaxEdges - 1   \* edge handles callers hand in

\* the lists handed to the bulk calls: entries over both orientations of the
\* pair (0, 1) and over a second pair (1, 2)
HandleLists == {<<0>>, <<2>>, <<0, 1>>, <<1, 1>>, <<2, 0>>}
PairLists == {<<<<0, 1>>>>, <<<<1, 2>>>>, <<<<0, 1>>, <<1, 2>>>>, <<<<1, 0>>, <<0, 1>>>>}
EdgeLists ==
    {<<<<1, 2, 1>>>>, <<<<0, 1, 1>>, <<1, 0, NoneW>>>>,
     <<<<1, 0, NoneW>>, <<0, 1, 1>>>>, <<<<0, 1, 1>>, <<1, 2, NoneW>>>>}

\* the node lists handed to subgraph_with_nodemap (with a repeated handle and
\* a handle no container holds), and the pairs and pair lists of the
\* containers they are taken from
SubLists == {<<>>, <<1, 3>>, <<3, 1, 1>>, <<2, 0, 7>>}
SubPairs == {<<0, 1>>, <<1, 3>>, <<3, 1>>, <<2, 2>>}
SubPairLists == {<<<<1, 3>>>>, <<<<1, 0>>, <<2, 2>>>>, <<<<0, 3>>, <<3, 1>>, <<7, 0>>>>}

\* the pairs joined in the containers a node of which is substituted, and
\* the nodes substituted: 1 is joined to 0 and 2, 3 is not live at first
SubstPairs == {<<0, 1>>, <<1, 0>>, <<1, 2>>, <<1, 1>>}
SubstNodeArgs == {1, 3}

\* the node lists handed to contract_nodes
ContractPairs == {<<0, 2>>, <<1, 2>>, <<0, 1>>}
RemoveLists ==
    {<<<<0, 1>>>>, <<<<0, 1>>, <<0, 1>>>>, <<<<0, 1>>, <<1, 2>>>>,
     <<<<1, 0>>, <<2, 2>>, <<0, 1>>>>}
ContractLists == {<<>>, <<0>>, <<0, 1>>, <<2, 1>>, <<0, 0>>}

\* ---------------------------------------------------------------- helpers
RECURSIVE SetToSeq(_)
\* the elements of a finite set of integers in increasing order
SetToSeq(S) ==
    IF S = {} THEN <<>>
    ELSE LET m == CHOOSE x \in S : \A y \in S : x <= y
         IN <<m>> \o SetToSeq(S \ {m})

\* ------------------------------------------------- StableGraph<Undirected>
\* nodes      slot h+1 holds the node's payload, or Vacant
\* edges      slot e+1 holds [w, a, b]: payload and stored (source, target)
\* free_node  the free list of node slots, head first
\* free_edge  the free list of edge slots, head first
\* eorder     the live edges, most recently added first.  add_edge links a new
\*            edge at the head of its source's outgoing list and of its
\*            target's incoming list, and nothing reorders a list, so every
\*            adjacency list is eorder restricted to that node's edges.
VacantEdge == [w |-> Vacant, a |-> End, b |-> End]

EmptyGraph ==
    [nodes |-> <<>>, edges |-> <<>>, free_node |-> <<>>, free_edge |-> <<>>,
     eorder |-> <<>>]

contains_node(g, h) == h >= 0 /\ h < Len(g.nodes) /\ g.nodes[h + 1] # Vacant
contains_edge(g, e) == e >= 0 /\ e < Len(g.edges) /\ g.edges[e + 1].w # Vacant

node_indices(g) == {h \in 0 .. Len(g.nodes) - 1 : g.nodes[h + 1] # Vacant}
edge_indices(g) == {e \in 0 .. Len(g.edges) - 1 : g.edges[e + 1].w # Vacant}

\* the count taken for the number of slots
node_count_slots(g) == Len(g.nodes)

node_count(g) == Cardinality(node_indices(g))
edge_count(g) == Len(g.eorder)

MaxOf(S) == CHOOSE x \in S : \A y \in S : y <= x

\* the bound without its "one past"
node_bound_highest(g) ==
    IF node_indices(g) = {} THEN 0 ELSE MaxOf(node_indices(g))

\* one past the highest live handle, 0 when nothing is live
node_bound(g) == IF node_indices(g) = {} THEN 0 ELSE MaxOf(node_indices(g)) + 1
edge_bound(g) == IF edge_indices(g) = {} THEN 0 ELSE MaxOf(edge_indices(g)) + 1

\* the outgoing (next[0]) and incoming (next[1]) edge lists of node h
OutList(g, h) == SelectSeq(g.eorder, LAMBDA e : g.edges[e + 1].a = h)
InList(g, h) == SelectSeq(g.eorder, LAMBDA e : g.edges[e + 1].b = h)

\* add_node as a plain vector push: freed slots are never taken again
g_add_node_push(g, w) ==
    [g |-> [g EXCEPT !.nodes = Append(g.nodes, w)], idx |-> Len(g.nodes)]

\* add_node taking the lowest vacant slot instead of the head of the free list
g_add_node_lowest(g, w) ==
    IF g.free_node # <<>>
    THEN LET m == CHOOSE x \in 0 .. Len(g.nodes) - 1 :
                      /\ g.nodes[x + 1] = Vacant
                      /\ \A y \in 0 .. x - 1 : g.nodes[y + 1] # Vacant
         IN [g |-> [g EXCEPT !.nodes[m + 1] = w,
                             !.free_node = SelectSeq(g.free_node, LAMBDA x : x # m)],
             idx |-> m]
    ELSE [g |-> [g EXCEPT !.nodes = Append(g.nodes, w)],
          idx |-> Len(g.nodes)]

\* add_node: pop the head of the free list, else push a new slot
g_add_node(g, w) ==
    IF g.free_node # <<>>
    THEN [g |-> [g EXCEPT !.nodes[Head(g.free_node) + 1] = w,
                          !.free_node = Tail(g.free_node)],
          idx |-> Head(g.free_node)]
    ELSE [g |-> [g EXCEPT !.nodes = Append(g.nodes, w)],
          idx |-> Len(g.nodes)]

\* add_edge: pop the head of the edge free list, or push a new slot, and link
\* the edge to its endpoints.  When an endpoint is not a live node it panics
\* (idx = End): a slot taken from the free list has been written by then, and
\* stays written, unlinked and uncounted
g_add_edge(g, a, b, w) ==
    LET rec == [w |-> w, a |-> a, b |-> b]
    IN IF ~contains_node(g, a) \/ ~contains_node(g, b)
       THEN [g |-> IF g.free_edge # <<>>
                   THEN [g EXCEPT !.edges[Head(g.free_edge) + 1] = rec,
                                  !.free_edge = Tail(g.free_edge)]
                   ELSE g,
             idx |-> End]
       ELSE IF g.free_edge # <<>>
       THEN [g |-> [g EXCEPT !.edges[Head(g.free_edge) + 1] = rec,
                             !.free_edge = Tail(g.free_edge),
                             !.eorder = <<Head(g.free_edge)>> \o g.eorder],
             idx |-> Head(g.free_edge)]
       ELSE [g |-> [g EXCEPT !.edges = Append(g.edges, rec),
                             !.eorder = <<Len(g.edges)>> \o g.eorder],
             idx |-> Len(g.edges)]

\* remove_edge: nothing if e is not live, else free the slot (head of free list)
g_remove_edge(g, e) ==
    IF ~contains_edge(g, e) THEN g
    ELSE [g EXCEPT !.edges[e + 1] = VacantEdge,
                   !.free_edge = <<e>> \o g.free_edge,
                   !.eorder = SelectSeq(g.eorder, LAMBDA x : x # e)]

RECURSIVE g_remove_edges(_, _)
g_remove_edges(g, es) ==
    IF es = <<>> THEN g ELSE g_remove_edges(g_remove_edge(g, Head(es)), Tail(es))

\* remove_node: nothing if h is not live; else remove the edges of the outgoing
\* list, then those left on the incoming list, then free the slot
\* remove_node as Vec::swap_remove does it (petgraph's Graph): the node with the
\* highest handle moves into the hole, and its edges follow it
g_remove_node_swap(g, h) ==
    IF ~contains_node(g, h) THEN g
    ELSE LET rem == OutList(g, h)
                    \o SelectSeq(InList(g, h), LAMBDA e : g.edges[e + 1].a # h)
             g1 == g_remove_edges(g, rem)
             m == node_bound(g1) - 1
             mv(x) == IF x = m THEN h ELSE x
         IN [g1 EXCEPT !.nodes = [i \in 1 .. Len(g1.nodes) |->
                                    IF i = m + 1 THEN Vacant
                                    ELSE IF i = h + 1 THEN g1.nodes[m + 1]
                                    ELSE g1.nodes[i]],
                       !.edges = [i \in 1 .. Len(g1.edges) |->
                                    IF g1.edges[i].w = Vacant THEN g1.edges[i]
                                    ELSE [w |-> g1.edges[i].w,
                                          a |-> mv(g1.edges[i].a),
                                          b |-> mv(g1.edges[i].b)]],
                       !.free_node = <<m>> \o g1.free_node]

\* remove_node that walks only the outgoing list of the node: the edges stored
\* with h as their target stay
g_remove_node_outgoing(g, h) ==
    IF ~contains_node(g, h) THEN g
    ELSE LET g1 == g_remove_edges(g, OutList(g, h))
         IN [g1 EXCEPT !.nodes[h + 1] = Vacant,
                       !.free_node = <<h>> \o g1.free_node]

g_remove_node(g, h) ==
    IF ~contains_node(g, h) THEN g
    ELSE LET rem == OutList(g, h)
                    \o SelectSeq(InList(g, h), LAMBDA e : g.edges[e + 1].a # h)
             g1 == g_remove_edges(g, rem)
         IN [g1 EXCEPT !.nodes[h + 1] = Vacant,
                       !.free_node = <<h>> \o g1.free_node]

RECURSIVE g_remove_nodes(_, _)
g_remove_nodes(g, hs) ==
    IF hs = <<>> THEN g ELSE g_remove_nodes(g_remove_node(g, Head(hs)), Tail(hs))

\* find_edge(a, b): a's outgoing list for target b, then a's incoming list for
\* source b; End when a is not live or no edge joins them
g_find_edge(g, a, b) ==
    IF ~contains_node(g, a) THEN End
    ELSE LET o == SelectSeq(OutList(g, a), LAMBDA e : g.edges[e + 1].b = b)
             i == SelectSeq(InList(g, a), LAMBDA e : g.edges[e + 1].a = b)
         IN IF o # <<>> THEN Head(o) ELSE IF i # <<>> THEN Head(i) ELSE End

g_clear(g) == EmptyGraph

g_clear_edges(g) == [g EXCEPT !.edges = <<>>, !.free_edge = <<>>, !.eorder = <<>>]

\* edge_references(): the live edges in increasing handle order
edge_references(g) == SetToSeq(edge_indices(g))

\* edges(h) of an undirected graph, as (source, target, weight, handle): the
\* outgoing list as stored, then the incoming list with the pair swapped so
\* that the source is h; a self-loop is yielded once, from the outgoing list
edges_of(g, h) ==
    LET o == OutList(g, h)
        i == SelectSeq(InList(g, h), LAMBDA e : g.edges[e + 1].a # h)
    IN [n \in 1 .. Len(o) |->
            <<g.edges[o[n] + 1].a, g.edges[o[n] + 1].b, g.edges[o[n] + 1].w, o[n]>>]
       \o [n \in 1 .. Len(i) |->
            <<g.edges[i[n] + 1].b, g.edges[i[n] + 1].a, g.edges[i[n] + 1].w, i[n]>>]

RECURSIVE FoldDegree(_, _)
\* the fold of degree over edges(index): 2 for source = target, else 1
FoldDegree(neighbors, count) ==
    IF neighbors = <<>> THEN count
    ELSE FoldDegree(Tail(neighbors),
                    IF Head(neighbors)[1] = Head(neighbors)[2]
                    THEN count + 2 ELSE count + 1)

\* degree as the number of entries edges(index) yields
DegreeByLength(g, node) == Len(edges_of(g, node))

\* PyGraph::degree
Degree(g, node) == FoldDegree(edges_of(g, node), 0)

\* --------------------------------------------------------- the state codec
\* __getstate__: (handle, payload) of every live node in increasing handle
\* order; one entry per edge slot below edge_bound, VacantEdge standing for
\* Python's None; the nodes_removed flag
__getstate__(g, nr) ==
    [nodes |-> [i \in 1 .. node_count(g) |->
                   <<SetToSeq(node_indices(g))[i],
                     g.nodes[SetToSeq(node_indices(g))[i] + 1]>>],
     edges |-> [i \in 1 .. edge_bound(g) |-> g.edges[i]],
     nodes_removed |-> nr]

RECURSIVE AddListed(_, _)
\* __setstate__, no holes: add_node for every listed payload
AddListed(g, items) ==
    IF items = <<>> THEN g
    ELSE AddListed(g_add_node(g, Head(items)[2]).g, Tail(items))

RECURSIVE AddNoneNodes(_, _)
AddNoneNodes(g, n) ==
    IF n = 0 THEN g ELSE AddNoneNodes(g_add_node(g, NoneW).g, n - 1)

RECURSIVE RestoreNodes(_, _, _)
\* __setstate__, general case: temporary nodes fill the gap below each listed
\* handle; tmp collects them
RestoreNodes(g, tmp, items) ==
    IF items = <<>> THEN [g |-> g, tmp |-> tmp]
    ELSE IF Head(items)[1] > node_bound(g)
         THEN LET r == g_add_node(g, NoneW)
              IN RestoreNodes(r.g, Append(tmp, r.idx), items)
         ELSE RestoreNodes(g_add_node(g, Head(items)[2]).g, tmp, Tail(items))

RECURSIVE RestoreEdges(_, _, _)
\* __setstate__, edges: a self-loop on tmp_node for every None, the listed edge
\* otherwise; ok = FALSE when add_edge panicked
RestoreEdges(g, tmp_node, items) ==
    IF items = <<>> THEN [g |-> g, ok |-> TRUE]
    ELSE LET it == Head(items)
             r == IF it.w = Vacant
                  THEN g_add_edge(g, tmp_node, tmp_node, NoneW)
                  ELSE g_add_edge(g, it.a, it.b, it.w)
         IN IF r.idx = End THEN [g |-> r.g, ok |-> FALSE]
            ELSE RestoreEdges(r.g, tmp_node, Tail(items))

\* __setstate__ on the container g0 (node_removed becomes state.nodes_removed)
__setstate__(g0, state) ==
    IF state.nodes = <<>> THEN [g |-> g0, ok |-> TRUE]
    ELSE LET g1 == IF ~state.nodes_removed
                   THEN AddListed(g0, state.nodes)
                   ELSE IF Len(state.nodes) = 1
                   THEN LET node_idx == state.nodes[1][1]
                            ga == AddNoneNodes(g0, node_idx)
                            gb == g_add_node(ga, state.nodes[1][2]).g
                        IN g_remove_nodes(gb, [i \in 1 .. node_idx |-> i - 1])
                   ELSE LET r == RestoreNodes(g0, <<>>, state.nodes)
                        IN g_remove_nodes(r.g, r.tmp)
             t == g_add_node(g1, NoneW)
             e == RestoreEdges(t.g, t.idx, state.edges)
         IN [g |-> IF e.ok THEN g_remove_node(e.g, t.idx) ELSE e.g, ok |-> e.ok]

\* _add_edge without the multigraph test: a new edge every time
_add_edge_always(g, mg, u, v, w) == g_add_edge(g, u, v, w)

\* PyGraph::_add_edge (idx = End: the inner add_edge panicked)
_add_edge(g, mg, u, v, w) ==
    LET index == g_find_edge(g, u, v)
    IN IF ~mg /\ index # End
       THEN [g |-> [g EXCEPT !.edges[index + 1].w = w], idx |-> index]
       ELSE g_add_edge(g, u, v, w)

\* ------------------------------------------------------ has_parallel_edges
\* StableGraph::has_parallel_edges (rustworkx_core): two live edges on the same
\* unordered pair of nodes
g_has_parallel_edges(g) ==
    \E e \in edge_indices(g), f \in edge_indices(g) :
        /\ e # f
        /\ {g.edges[e + 1].a, g.edges[e + 1].b} = {g.edges[f + 1].a, g.edges[f + 1].b}

HasParallelEdges(g, mg) == IF ~mg THEN FALSE ELSE g_has_parallel_edges(g)

\* ----------------------------------------------------------------- compose
NoMap(other) == [i \in 1 .. Len(other.nodes) |-> End]
MapGet(map, h) == IF h >= 0 /\ h < Len(map) THEN map[h + 1] ELSE End

RECURSIVE CopyNodes(_, _, _, _)
\* add_node(other[h]) for every h of hs in order, recording h -> new handle
CopyNodes(g, other, hs, map) ==
    IF hs = <<>> THEN [g |-> g, map |-> map]
    ELSE LET r == g_add_node(g, other.nodes[Head(hs) + 1])
         IN CopyNodes(r.g, other, Tail(hs), [map EXCEPT ![Head(hs) + 1] = r.idx])

RECURSIVE CopyEdgesRaw(_, _, _, _)
\* compose: graph.add_edge of every listed edge of other, endpoints mapped
CopyEdgesRaw(g, other, es, map) ==
    IF es = <<>> THEN g
    ELSE LET e == other.edges[Head(es) + 1]
         IN CopyEdgesRaw(g_add_edge(g, MapGet(map, e.a), MapGet(map, e.b), e.w).g,
                         other, Tail(es), map)

\* the loop over node_map adding no edge
AttachNothing(g, entries, map) == [g |-> g, ok |-> TRUE]

RECURSIVE AttachEdges(_, _, _)
\* compose: the node_map entries <<this_index, index, weight>> in iteration
\* order; ok = FALSE when unwrap() or add_edge panicked
AttachEdges(g, entries, map) ==
    IF entries = <<>> THEN [g |-> g, ok |-> TRUE]
    ELSE LET en == Head(entries)
             new_index == MapGet(map, en[2])
             r == g_add_edge(g, en[1], new_index, en[3])
         IN IF new_index = End THEN [g |-> g, ok |-> FALSE]
            ELSE IF r.idx = End THEN [g |-> r.g, ok |-> FALSE]
            ELSE AttachEdges(r.g, Tail(entries), map)

compose_graph(g, other, node_map) ==
    LET c == CopyNodes(g, other, SetToSeq(node_indices(other)), NoMap(other))
        g2 == CopyEdgesRaw(c.g, other, edge_references(other), c.map)
        r == AttachEdges(g2, node_map, c.map)
    IN [g |-> r.g, map |-> c.map, ok |-> r.ok]

\* -------------------------------------------------------------- to_directed
\* the returned PyDiGraph holds a StableGraph<Directed>: the same slots, an
\* edge [w, a, b] going from a to b
\* every edge of g added once, source to target
to_directed_forward(g, mg) ==
    LET c == CopyNodes(EmptyGraph, g, SetToSeq(node_indices(g)), NoMap(g))
    IN [graph |-> CopyEdgesRaw(c.g, g, edge_references(g), c.map),
        node_removed |-> FALSE, multigraph |-> mg]

RECURSIVE AddBothWays(_, _, _, _)
\* add_edge(source, target, weight) then add_edge(target, source, weight) for
\* every listed edge of g, endpoints mapped
AddBothWays(out, g, es, map) ==
    IF es = <<>> THEN out
    ELSE LET e == g.edges[Head(es) + 1]
             source == MapGet(map, e.a)
             target == MapGet(map, e.b)
             fwd == g_add_edge(out, source, target, e.w).g
         IN AddBothWays(g_add_edge(fwd, target, source, e.w).g, g, Tail(es), map)

to_directed_graph(g, mg) ==
    LET c == CopyNodes(EmptyGraph, g, SetToSeq(node_indices(g)), NoMap(g))
    IN [graph |-> AddBothWays(c.g, g, edge_references(g), c.map),
        node_removed |-> FALSE, multigraph |-> mg]

\* ------------------------------------------------------- extend_from_*_list
RECURSIVE AddNodesUntil(_, _)
\* while max_index >= self.node_count() { add_node(None) }
AddNodesUntil(g, max_index) ==
    IF max_index >= node_count(g)
    THEN AddNodesUntil(g_add_node(g, NoneW).g, max_index)
    ELSE g

RECURSIVE ExtendFrom(_, _, _)
\* the loop of extend_from_weighted_edge_list over <<source, target, weight>>;
\* ok = FALSE when _add_edge's add_edge panicked
ExtendFrom(g, mg, l) ==
    IF l = <<>> THEN [g |-> g, ok |-> TRUE]
    ELSE LET e == Head(l)
             g1 == AddNodesUntil(g, IF e[1] > e[2] THEN e[1] ELSE e[2])
             r == _add_edge(g1, mg, e[1], e[2], e[3])
         IN IF r.idx = End THEN [g |-> r.g, ok |-> FALSE]
            ELSE ExtendFrom(r.g, mg, Tail(l))

RECURSIVE AddEdgesFrom(_, _, _)
\* the loop of add_edges_from; idx is the handle returned for the last entry,
\* End when add_edge returned Err for some entry (the loop stops there)
AddEdgesFrom(g, mg, l) ==
    IF l = <<>> THEN [g |-> g, idx |-> End]
    ELSE LET e == Head(l)
         IN IF ~contains_node(g, e[1]) \/ ~contains_node(g, e[2])
            THEN [g |-> g, idx |-> End]
            ELSE LET r == _add_edge(g, mg, e[1], e[2], e[3])
                 IN IF Tail(l) = <<>> THEN r ELSE AddEdgesFrom(r.g, mg, Tail(l))

RECURSIVE RemoveEdgesFromSkipping(_, _)
\* remove_edges_from passing over a pair without an edge instead of returning
RemoveEdgesFromSkipping(g, l) ==
    IF l = <<>> THEN [g |-> g, ok |-> TRUE, k |-> 0]
    ELSE LET edge_index == g_find_edge(g, Head(l)[1], Head(l)[2])
             r == RemoveEdgesFromSkipping(
                      IF edge_index = End THEN g ELSE g_remove_edge(g, edge_index),
                      Tail(l))
         IN [g |-> r.g, ok |-> r.ok /\ edge_index # End,
             k |-> r.k + IF edge_index = End THEN 0 ELSE 1]

RECURSIVE RemoveEdgesFrom(_, _)
\* the loop of remove_edges_from over <<x, y>>: ok = FALSE is
\* Err(NoEdgeBetweenNodes), k the number of edges removed by then
RemoveEdgesFrom(g, l) ==
    IF l = <<>> THEN [g |-> g, ok |-> TRUE, k |-> 0]
    ELSE LET edge_index == g_find_edge(g, Head(l)[1], Head(l)[2])
         IN IF edge_index = End THEN [g |-> g, ok |-> FALSE, k |-> 0]
            ELSE LET r == RemoveEdgesFrom(g_remove_edge(g, edge_index), Tail(l))
                 IN [g |-> r.g, ok |-> r.ok, k |-> r.k + 1]

\* ----------------------------------------- substitute_node_with_subgraph
\* the callbacks the model hands in
\*   node_filter   "all": None (keep every node); "payload": keeps the nodes
\*                 whose payload is not None; "none": keeps no node
\*   edge_map_fn   "none": returns None; "zero", "one": return that handle of
\*                 other; "weight": returns the edge's payload as a handle
\* the (edge_map_fn, node_filter) pairs handed in
Callbacks ==
    {<<"zero", "all">>, <<"none", "all">>, <<"one", "payload">>,
     <<"weight", "payload">>, <<"weight", "all">>, <<"zero", "none">>}

filter_fn(node_filter, w) ==
    node_filter = "all" \/ (node_filter = "payload" /\ w # NoneW)

map_fn(edge_map_fn, source, target, w) ==
    IF edge_map_fn = "none" THEN End
    ELSE IF edge_map_fn = "zero" THEN 0
    ELSE IF edge_map_fn = "one" THEN 1
    ELSE w

RECURSIVE CopyEdges(_, _, _, _, _)
\* self._add_edge of every listed edge of other, endpoints mapped
CopyEdges(g, mg, other, es, map) ==
    IF es = <<>> THEN g
    ELSE LET e == other.edges[Head(es) + 1]
         IN CopyEdges(_add_edge(g, mg, MapGet(map, e.a), MapGet(map, e.b), e.w).g,
                      mg, other, Tail(es), map)

\* the loops re-routing nothing, and the loops treating a handle with no
\* image as None
RerouteNothing(g, mg, refs, edge_map_fn, map, incoming) == [g |-> g, ok |-> TRUE]

RECURSIVE RerouteSkipping(_, _, _, _, _, _)
RerouteSkipping(g, mg, refs, edge_map_fn, map, incoming) ==
    IF refs = <<>> THEN [g |-> g, ok |-> TRUE]
    ELSE LET r == Head(refs)
             new_index == MapGet(map, map_fn(edge_map_fn, r[1], r[2], r[3]))
         IN IF new_index = End
            THEN RerouteSkipping(g, mg, Tail(refs), edge_map_fn, map, incoming)
            ELSE RerouteSkipping(IF incoming
                                 THEN _add_edge(g, mg, r[1], new_index, r[3]).g
                                 ELSE _add_edge(g, mg, new_index, r[2], r[3]).g,
                                 mg, Tail(refs), edge_map_fn, map, incoming)

RECURSIVE Reroute(_, _, _, _, _, _)
\* the loop over in_edges (incoming = TRUE) or out_edges: ok = FALSE is the
\* Err(IndexError) "No mapped index" return, with what was added so far kept
Reroute(g, mg, refs, edge_map_fn, map, incoming) ==
    IF refs = <<>> THEN [g |-> g, ok |-> TRUE]
    ELSE LET r == Head(refs)
             old_index == map_fn(edge_map_fn, r[1], r[2], r[3])
             new_index == MapGet(map, old_index)
         IN IF old_index = End
            THEN Reroute(g, mg, Tail(refs), edge_map_fn, map, incoming)
            ELSE IF new_index = End THEN [g |-> g, ok |-> FALSE]
            ELSE Reroute(IF incoming
                         THEN _add_edge(g, mg, r[1], new_index, r[3]).g
                         ELSE _add_edge(g, mg, new_index, r[2], r[3]).g,
                         mg, Tail(refs), edge_map_fn, map, incoming)

RECURSIVE MapCalls(_, _, _)
\* the handles of the edges map_fn is called with by a loop over refs, up to
\* and with the call that ends the loop with Err(IndexError)
MapCalls(refs, edge_map_fn, map) ==
    IF refs = <<>> THEN <<>>
    ELSE LET r == Head(refs)
             old_index == map_fn(edge_map_fn, r[1], r[2], r[3])
         IN <<r[4]>> \o
            (IF old_index # End /\ MapGet(map, old_index) = End THEN <<>>
             ELSE MapCalls(Tail(refs), edge_map_fn, map))

\* in_edges: edge_references() whose stored target is node, as stored
in_edges_of(g, node) ==
    LET ids == SelectSeq(edge_references(g), LAMBDA e : g.edges[e + 1].b = node)
    IN [n \in 1 .. Len(ids) |->
          <<g.edges[ids[n] + 1].a, g.edges[ids[n] + 1].b, g.edges[ids[n] + 1].w,
            ids[n]>>]

\* out_edges: edges(node) without those whose reversed pair is in in_set
out_edges_of(g, node) ==
    LET ins == in_edges_of(g, node)
        in_set == {<<ins[n][1], ins[n][2]>> : n \in 1 .. Len(ins)}
    IN SelectSeq(edges_of(g, node), LAMBDA r : <<r[2], r[1]>> \notin in_set)

\* the body of substitute_node_with_subgraph once node is known to be live;
\* filtered counts the calls of node_filter, calls lists the edges handed to
\* edge_map_fn
substitute_graph(g, mg, node, other, edge_map_fn, node_filter) ==
    LET hs == SelectSeq(SetToSeq(node_indices(other)),
                        LAMBDA h : filter_fn(node_filter, other.nodes[h + 1]))
        c == CopyNodes(g, other, hs, NoMap(other))
        filtered == IF node_filter = "all" THEN 0 ELSE node_count(other)
    IN IF hs = <<>>
       THEN [g |-> g_remove_node(g, node), map |-> NoMap(other), ok |-> TRUE,
             filtered |-> filtered, calls |-> <<>>]
       ELSE LET es == SelectSeq(edge_references(other),
                                LAMBDA e : /\ MapGet(c.map, other.edges[e + 1].b) # End
                                           /\ MapGet(c.map, other.edges[e + 1].a) # End)
                g2 == CopyEdges(c.g, mg, other, es, c.map)
                r1 == Reroute(g2, mg, in_edges_of(g2, node), edge_map_fn, c.map, TRUE)
                r2 == IF r1.ok
                      THEN Reroute(r1.g, mg, out_edges_of(g2, node), edge_map_fn,
                                   c.map, FALSE)
                      ELSE r1
            IN [g |-> IF r2.ok THEN g_remove_node(r2.g, node) ELSE r2.g,
                map |-> c.map, ok |-> r2.ok, filtered |-> filtered,
                calls |-> MapCalls(in_edges_of(g2, node), edge_map_fn, c.map) \o
                          (IF r1.ok
                           THEN MapCalls(out_edges_of(g2, node), edge_map_fn, c.map)
                           ELSE <<>>)]

\* ---------------------------------------------------------- contract_nodes
\* rustworkx_core::graph_ext contract_nodes / contract_nodes_simple
RECURSIVE Dedup(_)
Dedup(s) ==
    IF s = <<>> THEN <<>>
    ELSE <<Head(s)>> \o Dedup(SelectSeq(Tail(s), LAMBDA x : x # Head(s)))

RECURSIVE IncidentTo(_, _)
\* the handles of the edges incident to the nodes hs, in the nodes' order
IncidentTo(g, hs) ==
    IF hs = <<>> THEN <<>>
    ELSE OutList(g, Head(hs)) \o InList(g, Head(hs)) \o IncidentTo(g, Tail(hs))

\* where edge e goes: <<other endpoint, payload>>, the other endpoint being the
\* new node when both ends are contracted
Rerouted(g, e, S, new) ==
    LET r == g.edges[e + 1]
    IN IF r.a \in S /\ r.b \in S THEN <<new, r.w>>
       ELSE IF r.a \in S THEN <<r.b, r.w>>
       ELSE <<r.a, r.w>>

RECURSIVE AddRerouted(_, _, _)
AddRerouted(g, l, new) ==
    IF l = <<>> THEN g
    ELSE AddRerouted(g_add_edge(g, Head(l)[1], new, Head(l)[2]).g, Tail(l), new)

RECURSIVE CombineEdges(_, _)
\* one edge per other endpoint, in first-met order: "first" keeps the first
\* payload met, "second" the callback's w2, "fail" is a callback that raises
CombineEdges(l, fn) ==
    IF l = <<>> THEN [l |-> <<>>, ok |-> TRUE]
    ELSE LET x == Head(l)[1]
             same == SelectSeq(Tail(l), LAMBDA p : p[1] = x)
             rest == CombineEdges(SelectSeq(Tail(l), LAMBDA p : p[1] # x), fn)
             w == IF same = <<>> \/ fn = "first" THEN Head(l)[2]
                  ELSE same[Len(same)][2]
         IN [l |-> <<<<x, w>>>> \o rest.l,
             ok |-> rest.ok /\ (same = <<>> \/ fn # "fail")]

\* the nodes to contract: the listed handles that are live, once each
Contracted(g, nodes) == SelectSeq(Dedup(nodes), LAMBDA h : contains_node(g, h))

ReroutedList(g, S, new) ==
    LET inc == Dedup(IncidentTo(g, S))
        Sset == {S[i] : i \in 1 .. Len(S)}
    IN [i \in 1 .. Len(inc) |-> Rerouted(g, inc[i], Sset, new)]

\* StableGraph::contract_nodes: parallel edges are kept
g_contract_nodes(g, nodes, obj) ==
    LET r == g_add_node(g, obj)
        S == Contracted(g, nodes)
        g2 == AddRerouted(r.g, ReroutedList(g, S, r.idx), r.idx)
    IN [g |-> g_remove_nodes(g2, S), idx |-> r.idx]

\* StableGraph::contract_nodes_simple: parallel edges are merged by fn; idx is
\* End when fn raised, the new node being already added
g_contract_nodes_simple(g, nodes, obj, fn) ==
    LET r == g_add_node(g, obj)
        S == Contracted(g, nodes)
        c == CombineEdges(ReroutedList(g, S, r.idx), fn)
        g2 == AddRerouted(r.g, c.l, r.idx)
    IN IF c.ok THEN [g |-> g_remove_nodes(g2, S), idx |-> r.idx]
       ELSE [g |-> r.g, idx |-> End]

\* weight_combo_fn: "none" is None, "second" and "fail" are callbacks
ComboFns == {"none", "second", "fail"}

\* the match without its multigraph test: no callback keeps parallel edges
contract_graph_keep(g, mg, nodes, obj, weight_combo_fn) ==
    IF weight_combo_fn # "none"
    THEN g_contract_nodes_simple(g, nodes, obj, weight_combo_fn)
    ELSE g_contract_nodes(g, nodes, obj)

\* the match without its multigraph test: no callback takes the first edge
contract_graph_first(g, mg, nodes, obj, weight_combo_fn) ==
    g_contract_nodes_simple(g, nodes, obj,
                            IF weight_combo_fn # "none" THEN weight_combo_fn
                            ELSE "first")

\* the match of PyGraph::contract_nodes on (weight_combo_fn, multigraph)
contract_graph(g, mg, nodes, obj, weight_combo_fn) ==
    IF weight_combo_fn # "none"
    THEN g_contract_nodes_simple(g, nodes, obj, weight_combo_fn)
    ELSE IF ~mg
    THEN g_contract_nodes_simple(g, nodes, obj, "first")
    ELSE g_contract_nodes(g, nodes, obj)

\* ----------------------------------------------------------- edge_subgraph
\* edge_set looked up in the stored orientation only
edge_subgraph_stored_orientation(g, nr, edge_list) ==
    LET edges == SelectSeq(edge_list, LAMBDA x : g_find_edge(g, x[1], x[2]) # End)
        nodes == UNION {{edges[i][1], edges[i][2]} : i \in 1 .. Len(edges)}
        edge_set == {edges[i] : i \in 1 .. Len(edges)}
        dropN == SelectSeq(SetToSeq(node_indices(g)), LAMBDA n : n \notin nodes)
        dropE == SelectSeq(edge_references(g),
                           LAMBDA e : <<g.edges[e + 1].a, g.edges[e + 1].b>> \notin edge_set)
    IN [g |-> g_remove_edges(g_remove_nodes(g, dropN), dropE),
        node_removed |-> nr \/ dropN # <<>>]

edge_subgraph_graph(g, nr, edge_list) ==
    LET edges == SelectSeq(edge_list, LAMBDA x : g_find_edge(g, x[1], x[2]) # End)
        nodes == UNION {{edges[i][1], edges[i][2]} : i \in 1 .. Len(edges)}
        edge_set == {edges[i] : i \in 1 .. Len(edges)}
        dropN == SelectSeq(SetToSeq(node_indices(g)), LAMBDA n : n \notin nodes)
        dropE == SelectSeq(edge_references(g),
                           LAMBDA e : /\ <<g.edges[e + 1].a, g.edges[e + 1].b>> \notin edge_set
                                      /\ <<g.edges[e + 1].b, g.edges[e + 1].a>> \notin edge_set)
    IN [g |-> g_remove_edges(g_remove_nodes(g, dropN), dropE),
        node_removed |-> nr \/ dropN # <<>>]

\* ---------------------------------------------------- subgraph_with_nodemap
\* the nodes of the list that are live, in the order of the list
ListedLive(g, nodes) == SelectSeq(Dedup(nodes), LAMBDA h : contains_node(g, h))

\* the filtered node_references() replaced by the order of the list
subgraph_in_list_order(g, nodes) ==
    LET node_set == {nodes[i] : i \in 1 .. Len(nodes)}
        sel == ListedLive(g, nodes)
        c == CopyNodes(EmptyGraph, g, sel, NoMap(g))
        es == SelectSeq(edge_references(g),
                        LAMBDA e : /\ g.edges[e + 1].a \in node_set
                                   /\ g.edges[e + 1].b \in node_set)
    IN [g |-> CopyEdgesRaw(c.g, g, es, c.map),
        node_removed |-> FALSE,
        node_map |-> [n \in 0 .. Len(sel) - 1 |-> sel[n + 1]]]

\* the returned (PyGraph, NodeMap): NodeFiltered yields the live nodes of
\* node_set by increasing index and the live edges with both ends in node_set
\* by increasing index; node_map is node_dict, new index -> original index
subgraph_with_nodemap_graph(g, nodes) ==
    LET node_set == {nodes[i] : i \in 1 .. Len(nodes)}
        sel == SelectSeq(SetToSeq(node_indices(g)), LAMBDA h : h \in node_set)
        picked == {sel[i] : i \in 1 .. Len(sel)}
        c == CopyNodes(EmptyGraph, g, sel, NoMap(g))
        es == SelectSeq(edge_references(g),
                        LAMBDA e : /\ g.edges[e + 1].a \in node_set
                                   /\ g.edges[e + 1].b \in node_set)
    IN [g |-> CopyEdgesRaw(c.g, g, es, c.map),
        node_removed |-> FALSE,
        node_map |-> [n \in {c.map[h + 1] : h \in picked} |->
                         CHOOSE h \in picked : c.map[h + 1] = n]]

\* ------------------------------------------------ the `other` containers
\* one node; two joined nodes; two nodes joined twice, once in each stored
\* orientation; a container whose node 0 was removed, node 1 being live
Other1 == g_add_node(EmptyGraph, 1).g
Other2 == g_add_edge(g_add_node(Other1, NoneW).g, 0, 1, 1).g
Other3 == g_add_edge(Other2, 1, 0, NoneW).g
Other4 == g_remove_node(g_add_node(Other1, NoneW).g, 0)
OtherGraphs == {Other2, Other3, Other4}

\* compose's node_map, as its entries <<this_index, index, weight>> in the
\* order the HashMap yields them
NodeMaps == {<<>>, <<<<0, 0, 1>>>>, <<<<1, 1, NoneW>>>>}

\* ------------------------------------------------------------------ state
VARIABLES
    graph,         \* PyGraph.graph
    node_removed,  \* PyGraph.node_removed
    multigraph,    \* PyGraph.multigraph
    panicked,      \* a call unwound with a panic instead of returning
    last,          \* the last call: its name, arguments and result
    limits         \* the slots a container may hold, and whether calls are recorded

vars == <<graph, node_removed, multigraph, panicked, last, limits>>

\* op   the method called
\* a, b node arguments (End when the call has none or they are not recorded)
\* w    payload argument of a bulk call's last entry
\* k    a count the call reports (see each action)
\* ret  the returned handle; End for Err(..) and for calls that return nothing
\* nodes, pairs  the list handed to subgraph_with_nodemap, to edge_subgraph
\* out  the (PyGraph, NodeMap) subgraph_with_nodemap returned
\* filtered, calls  the number of calls of node_filter and the edges handed to
\*      edge_map_fn by substitute_node_with_subgraph
NoOut == [g |-> EmptyGraph, node_removed |-> FALSE, node_map |-> <<>>]
NoCall ==
    [op |-> "", a |-> End, b |-> End, w |-> End, k |-> End, ret |-> End,
     nodes |-> <<>>, pairs |-> <<>>, out |-> NoOut, filtered |-> 0,
     calls |-> <<>>]

Call(op, a, b, w, k, ret) ==
    IF limits.record
    THEN [NoCall EXCEPT !.op = op, !.a = a, !.b = b, !.w = w, !.k = k, !.ret = ret]
    ELSE NoCall

CallSubstitute(node, ok, filtered, calls) ==
    IF limits.record
    THEN [NoCall EXCEPT !.op = "substitute_node_with_subgraph", !.a = node,
                        !.k = IF ok THEN 1 ELSE 0, !.filtered = filtered,
                        !.calls = calls]
    ELSE NoCall

CallSubgraph(op, nodes, pairs, out) ==
    IF limits.record
    THEN [NoCall EXCEPT !.op = op, !.nodes = nodes, !.pairs = pairs, !.out = out]
    ELSE NoCall

Fits(g) == Len(g.nodes) <= limits.nodes /\ Len(g.edges) <= limits.edges

\* PyGraph::new
New(mg, lim) ==
    /\ graph = EmptyGraph
    /\ node_removed = FALSE
    /\ multigraph \in mg
    /\ panicked = FALSE
    /\ last = NoCall
    /\ limits = lim

add_node(obj) ==
    LET r == g_add_node(graph, obj)
    IN /\ ~panicked
       /\ Fits(r.g)
       /\ graph' = r.g
       /\ last' = Call("add_node", End, End, End, End, r.idx)
       /\ UNCHANGED <<node_removed, multigraph, panicked, limits>>

remove_node(node) ==
    /\ ~panicked
    /\ graph' = g_remove_node(graph, node)
    /\ node_removed' = TRUE
    /\ last' = Call("remove_node", node, End, End, End, End)
    /\ UNCHANGED <<multigraph, panicked, limits>>

\* add_edge without its test of the endpoints: _add_edge is called at once
add_edge_unchecked(node_a, node_b, edge) ==
    /\ ~panicked
    /\ LET r == _add_edge(graph, multigraph, node_a, node_b, edge)
       IN /\ Fits(r.g)
          /\ graph' = r.g
          /\ panicked' = (r.idx = End)
          /\ last' = Call("add_edge", node_a, node_b,
                          IF r.idx = End THEN End ELSE edge, End, r.idx)
    /\ UNCHANGED <<node_removed, multigraph, limits>>

\* add_edge: Err(IndexError) when an endpoint is not live
add_edge(node_a, node_b, edge) ==
    /\ ~panicked
    /\ IF ~contains_node(graph, node_a) \/ ~contains_node(graph, node_b)
       THEN /\ last' = Call("add_edge", node_a, node_b, End, End, End)
            /\ UNCHANGED graph
       ELSE LET r == _add_edge(graph, multigraph, node_a, node_b, edge)
            IN /\ Fits(r.g)
               /\ graph' = r.g
               /\ last' = Call("add_edge", node_a, node_b, edge, End, r.idx)
    /\ UNCHANGED <<node_removed, multigraph, panicked, limits>>

\* remove_nodes_from: remove_node on every entry; k is the list's length
remove_nodes_from(index_list) ==
    /\ ~panicked
    /\ graph' = g_remove_nodes(graph, index_list)
    /\ node_removed' = (node_removed \/ index_list # <<>>)
    /\ last' = Call("remove_nodes_from", End, End, End, Len(index_list), End)
    /\ UNCHANGED <<multigraph, panicked, limits>>

\* __delitem__: Err(IndexError) when idx is not live (ret End), else ret idx
__delitem__(idx) ==
    /\ ~panicked
    /\ IF contains_node(graph, idx)
       THEN /\ graph' = g_remove_node(graph, idx)
            /\ node_removed' = TRUE
            /\ last' = Call("__delitem__", idx, End, End, End, idx)
       ELSE /\ last' = Call("__delitem__", idx, End, End, End, End)
            /\ UNCHANGED <<graph, node_removed>>
    /\ UNCHANGED <<multigraph, panicked, limits>>

\* remove_edge(a, b): Err(NoEdgeBetweenNodes) when find_edge finds nothing
\* (ret End), else the found edge is removed (ret its handle)
remove_edge(node_a, node_b) ==
    LET edge_index == g_find_edge(graph, node_a, node_b)
    IN /\ ~panicked
       /\ graph' = IF edge_index = End THEN graph ELSE g_remove_edge(graph, edge_index)
       /\ last' = Call("remove_edge", node_a, node_b, End, End, edge_index)
       /\ UNCHANGED <<node_removed, multigraph, panicked, limits>>

remove_edge_from_index(edge) ==
    /\ ~panicked
    /\ graph' = g_remove_edge(graph, edge)
    /\ last' = Call("remove_edge_from_index", edge, End, End, End, End)
    /\ UNCHANGED <<node_removed, multigraph, panicked, limits>>

clear ==
    /\ ~panicked
    /\ graph' = g_clear(graph)
    /\ node_removed' = TRUE
    /\ last' = Call("clear", End, End, End, End, End)
    /\ UNCHANGED <<multigraph, panicked, limits>>

clear_edges ==
    /\ ~panicked
    /\ graph' = g_clear_edges(graph)
    /\ last' = Call("clear_edges", End, End, End, End, End)
    /\ UNCHANGED <<node_removed, multigraph, panicked, limits>>

\* add_edges_from: a, b, w are the last entry; k counts the earlier entries
\* naming the same unordered pair as the last
add_edges_from(obj_list) ==
    LET r == AddEdgesFrom(graph, multigraph, obj_list)
        n == Len(obj_list)
        lastE == obj_list[n]
    IN /\ ~panicked
       /\ Fits(r.g)
       /\ graph' = r.g
       /\ last' = Call("add_edges_from", lastE[1], lastE[2], lastE[3],
                       Cardinality({i \in 1 .. n - 1 :
                                      {obj_list[i][1], obj_list[i][2]}
                                      = {lastE[1], lastE[2]}}),
                       r.idx)
       /\ UNCHANGED <<node_removed, multigraph, panicked, limits>>

extend_from_weighted_edge_list(edge_list) ==
    LET r == ExtendFrom(graph, multigraph, edge_list)
    IN /\ ~panicked
       /\ Fits(r.g)
       /\ graph' = r.g
       /\ panicked' = ~r.ok
       /\ last' = Call("extend_from_weighted_edge_list", End, End, End, End, End)
       /\ UNCHANGED <<node_removed, multigraph, limits>>

\* extend_from_edge_list: the same loop with py.None() as every weight
extend_from_edge_list(edge_list) ==
    LET r == ExtendFrom(graph, multigraph,
                        [i \in 1 .. Len(edge_list) |->
                            <<edge_list[i][1], edge_list[i][2], NoneW>>])
    IN /\ ~panicked
       /\ Fits(r.g)
       /\ graph' = r.g
       /\ panicked' = ~r.ok
       /\ last' = Call("extend_from_edge_list", End, End, End, End, End)
       /\ UNCHANGED <<node_removed, multigraph, limits>>

\* remove_edges_from: k is the number of edges removed, ret End for Err
remove_edges_from(index_list) ==
    LET r == RemoveEdgesFrom(graph, index_list)
    IN /\ ~panicked
       /\ graph' = r.g
       /\ last' = Call("remove_edges_from", End, End, End, r.k,
                       IF r.ok THEN 0 ELSE End)
       /\ UNCHANGED <<node_removed, multigraph, panicked, limits>>

\* degree: a query, ret is the value returned
degree(node) ==
    /\ ~panicked
    /\ last' = Call("degree", node, End, End, End, Degree(graph, node))
    /\ UNCHANGED <<graph, node_removed, multigraph, panicked, limits>>

\* subgraph_with_nodemap: a query
subgraph_with_nodemap(nodes) ==
    /\ ~panicked
    /\ last' = CallSubgraph("subgraph_with_nodemap", nodes, <<>>,
                            subgraph_with_nodemap_graph(graph, nodes))
    /\ UNCHANGED <<graph, node_removed, multigraph, panicked, limits>>

\* to_directed: a query, ret and k are the node count and the edge count of
\* the PyDiGraph returned
to_directed ==
    LET r == to_directed_graph(graph, multigraph)
    IN /\ ~panicked
       /\ last' = Call("to_directed", End, End, End, edge_count(r.graph),
                       node_count(r.graph))
       /\ UNCHANGED <<graph, node_removed, multigraph, panicked, limits>>

\* has_parallel_edges: a query, ret is 1 for true and 0 for false
has_parallel_edges ==
    /\ ~panicked
    /\ last' = Call("has_parallel_edges", End, End, End, End,
                    IF HasParallelEdges(graph, multigraph) THEN 1 ELSE 0)
    /\ UNCHANGED <<graph, node_removed, multigraph, panicked, limits>>

\* compose: k is the number of nodes copied from other
compose(other, node_map) ==
    LET r == compose_graph(graph, other, node_map)
    IN /\ ~panicked
       /\ Fits(r.g)
       /\ graph' = r.g
       /\ panicked' = ~r.ok
       /\ last' = Call("compose", End, End, End, node_count(other), End)
       /\ UNCHANGED <<node_removed, multigraph, limits>>

\* substitute_node_with_subgraph: Err(IndexError) before any change when node
\* is not live; a is node, k is 1 for Ok and 0 for Err
substitute_unchecked(node, other, edge_map_fn, node_filter) ==
    LET r == substitute_graph(graph, multigraph, node, other, edge_map_fn, node_filter)
    IN /\ ~panicked
       /\ Fits(r.g)
       /\ graph' = r.g
       /\ last' = CallSubstitute(node, r.ok, r.filtered, r.calls)
       /\ UNCHANGED <<node_removed, multigraph, panicked, limits>>

substitute_node_with_subgraph(node, other, edge_map_fn, node_filter) ==
    /\ ~panicked
    /\ IF ~contains_node(graph, node)
       THEN /\ last' = CallSubstitute(node, FALSE, 0, <<>>)
            /\ UNCHANGED graph
       ELSE LET r == substitute_graph(graph, multigraph, node, other,
                                      edge_map_fn, node_filter)
            IN /\ Fits(r.g)
               /\ graph' = r.g
               /\ last' = CallSubstitute(node, r.ok, r.filtered, r.calls)
    /\ UNCHANGED <<node_removed, multigraph, panicked, limits>>

\* contract_nodes: the three arms of the match on (weight_combo_fn, multigraph)
contract_nodes(nodes, obj, weight_combo_fn) ==
    LET res == contract_graph(graph, multigraph, nodes, obj, weight_combo_fn)
    IN /\ ~panicked
       /\ Fits(res.g)
       /\ graph' = res.g
       /\ last' = Call("contract_nodes", End, End, End, End, res.idx)
       /\ UNCHANGED <<node_removed, multigraph, panicked, limits>>

\* edge_subgraph: the container it returns becomes the container at hand
edge_subgraph(edge_list) ==
    LET r == edge_subgraph_graph(graph, node_removed, edge_list)
    IN /\ ~panicked
       /\ graph' = r.g
       /\ node_removed' = r.node_removed
       /\ last' = CallSubgraph("edge_subgraph", <<>>, edge_list, NoOut)
       /\ UNCHANGED <<multigraph, panicked, limits>>

\* pickling: a container built by __new__(multigraph) takes __setstate__ of
\* this container's __getstate__
unpickle ==
    LET r == __setstate__(EmptyGraph, __getstate__(graph, node_removed))
    IN /\ ~panicked
       /\ Fits(r.g)
       /\ graph' = r.g
       /\ panicked' = ~r.ok
       /\ last' = Call("__setstate__", End, End, End, End, End)
       /\ UNCHANGED <<node_removed, multigraph, limits>>

\* ------------------------------------------------------ the specifications
\* Spec: every public operation, calls not recorded
Init == New(BOOLEAN, [nodes |-> MaxNodes, edges |-> MaxEdges, record |-> FALSE])

Next ==
    \/ \E w \in NodeWeights : add_node(w)
    \/ \E h \in Handles : remove_node(h)
    \/ \E a \in Handles, b \in Handles, w \in EdgeWeights : add_edge(a, b, w)
    \/ \E l \in HandleLists : remove_nodes_from(l)
    \/ \E h \in Handles : __delitem__(h)
    \/ \E a \in Handles, b \in Handles : remove_edge(a, b)
    \/ \E e \in EdgeHandles : remove_edge_from_index(e)
    \/ clear
    \/ clear_edges
    \/ \E l \in EdgeLists : add_edges_from(l)
    \/ \E l \in RemoveLists : remove_edges_from(l)
    \/ \E l \in EdgeLists : extend_from_weighted_edge_list(l)
    \/ \E l \in PairLists : extend_from_edge_list(l)
    \/ \E o \in OtherGraphs, m \in NodeMaps : compose(o, m)
    \/ \E n \in Handles, o \in {Other2, Other3}, cb \in Callbacks :
          substitute_node_with_subgraph(n, o, cb[1], cb[2])
    \/ \E l \in ContractLists, w \in NodeWeights, c \in ComboFns :
          contract_nodes(l, w, c)
    \/ \E l \in PairLists : edge_subgraph(l)
    \/ unpickle

Spec == Init /\ [][Next]_vars

\* SpecOps: the single-element operations and contraction, every call recorded
\* in `last`
InitOps == New(BOOLEAN, [nodes |-> MaxNodes, edges |-> MaxEdges, record |-> TRUE])

NextOps ==
    \/ \E w \in NodeWeights : add_node(w)
    \/ \E h \in Handles : remove_node(h)
    \/ \E a \in Handles, b \in Handles, w \in EdgeWeights : add_edge(a, b, w)
    \/ \E a \in Handles, b \in Handles : remove_edge(a, b)
    \/ \E e \in EdgeHandles : remove_edge_from_index(e)
    \/ clear
    \/ clear_edges
    \/ \E l \in ContractLists, w \in NodeWeights, c \in ComboFns :
          contract_nodes(l, w, c)

SpecOps == InitOps /\ [][NextOps]_vars

\* SpecEdges: edge insertion, single and bulk, on containers that compose and
\* removals have shaped
NextEdges ==
    \/ \E w \in NodeWeights : add_node(w)
    \/ \E h \in Handles : remove_node(h)
    \/ \E a \in Handles, b \in Handles, w \in EdgeWeights : add_edge(a, b, w)
    \/ \E e \in EdgeHandles : remove_edge_from_index(e)
    \/ \E l \in EdgeLists : add_edges_from(l)
    \/ \E l \in RemoveLists : remove_edges_from(l)
    \/ compose(Other3, <<>>)

SpecEdges == InitOps /\ [][NextEdges]_vars

\* SpecQuery: the queries, on containers built by single additions and removals
NextQuery ==
    \/ \E w \in NodeWeights : add_node(w)
    \/ \E h \in Handles : remove_node(h)
    \/ \E a \in Handles, b \in Handles, w \in EdgeWeights : add_edge(a, b, w)
    \/ \E e \in EdgeHandles : remove_edge_from_index(e)
    \/ \E h \in Handles : degree(h)
    \/ to_directed

SpecQuery == InitOps /\ [][NextQuery]_vars

\* SpecContract: contraction, with room for the node and the edges it adds;
\* contract_nodes is called on containers without holes, and calls follow it
InitContract ==
    New(BOOLEAN, [nodes |-> ContractNodes, edges |-> ContractEdges, record |-> TRUE])

NextContract ==
    \/ add_node(1)
    \/ \E p \in ContractPairs : add_edge(p[1], p[2], 1)
    \/ /\ graph.free_node = <<>>
       /\ \E l \in ContractLists, w \in NodeWeights, c \in ComboFns :
             contract_nodes(l, w, c)

SpecContract == InitContract /\ [][NextContract]_vars

\* containers of up to SubNodes nodes and the two subgraph extractions
InitSubgraph == New(BOOLEAN, [nodes |-> SubNodes, edges |-> SubEdges, record |-> TRUE])

NextSubgraph ==
    \/ \E w \in NodeWeights : add_node(w)
    \/ \E h \in {0, 2} : remove_node(h)
    \/ \E p \in SubPairs, w \in EdgeWeights : add_edge(p[1], p[2], w)
    \/ \E l \in SubLists : subgraph_with_nodemap(l)
    \/ \E l \in SubPairLists : edge_subgraph(l)

SpecSubgraph == InitSubgraph /\ [][NextSubgraph]_vars

\* SpecCodec: multigraphs with node and edge holes made in every order, and
\* their pickling
InitCodec == New({TRUE}, [nodes |-> CodecNodes, edges |-> CodecEdges, record |-> TRUE])

NextCodec ==
    \/ add_node(1)
    \/ \E h \in 0 .. CodecNodes - 2 : remove_node(h)
    \/ \E p \in {<<0, 1>>, <<2, 2>>} : add_edge(p[1], p[2], 1)
    \/ \E e \in 0 .. CodecEdges - 1 : remove_edge_from_index(e)
    \/ unpickle

SpecCodec == InitCodec /\ [][NextCodec]_vars

\* SpecCompose: containers of up to ComposeSelf nodes, with holes, composed
\* with the other containers
InitCompose ==
    New(BOOLEAN, [nodes |-> ComposeNodes, edges |-> ComposeEdges, record |-> TRUE])

NextCompose ==
    \/ /\ Len(graph.nodes) < ComposeSelf
       /\ add_node(1)
    \/ remove_node(0)
    \/ \E w \in EdgeWeights : add_edge(0, 1, w)
    \/ \E o \in OtherGraphs, m \in NodeMaps : compose(o, m)
    \/ has_parallel_edges

SpecCompose == InitCompose /\ [][NextCompose]_vars

\* SpecSubst: containers of up to SubstSelf nodes and edges around node 1, and
\* its substitution
InitSubst == New(BOOLEAN, [nodes |-> SubstNodes, edges |-> SubstEdges, record |-> TRUE])

NextSubst ==
    \/ /\ Len(graph.nodes) < SubstSelf
       /\ add_node(1)
    \/ /\ Len(graph.edges) < SubstSelf
       /\ Len(graph.nodes) <= SubstSelf
       /\ \E p \in SubstPairs, w \in EdgeWeights : add_edge(p[1], p[2], w)
    \/ /\ graph.free_node = <<>>
       /\ \E n \in SubstNodeArgs, o \in {Other2, Other3}, cb \in Callbacks :
             substitute_node_with_subgraph(n, o, cb[1], cb[2])

SpecSubst == InitSubst /\ [][NextSubst]_vars

\* SpecSlots: slot allocation alone, on a multigraph with more node slots; all
\* edges join nodes 0 and 1
InitSlots == New({TRUE}, [nodes |-> SlotNodes, edges |-> SlotEdges, record |-> TRUE])

NextSlots ==
    \/ add_node(1)
    \/ \E h \in 0 .. SlotNodes - 1 : remove_node(h)
    \/ add_edge(0, 1, 1)
    \/ \E e \in 0 .. SlotEdges - 1 : remove_edge_from_index(e)

SpecSlots == InitSlots /\ [][NextSlots]_vars

\* ----------------------------------------------------------------- claims
\* C1: in every reachable state both endpoints of every live edge are live
\* nodes
C1_RefIntegrity ==
    \A e \in edge_indices(graph) :
        /\ contains_node(graph, graph.edges[e + 1].a)
        /\ contains_node(graph, graph.edges[e + 1].b)

\* C2: a container built with multigraph = false never holds two live edges
\* between the same unordered pair of nodes
C2_NoParallelEdges ==
    ~multigraph =>
        \A e \in edge_indices(graph), f \in edge_indices(graph) :
            {graph.edges[e + 1].a, graph.edges[e + 1].b}
              = {graph.edges[f + 1].a, graph.edges[f + 1].b} => e = f

\* the live part of a container: handles with payloads, edges with endpoints
Live(g) ==
    [nodes |-> [h \in node_indices(g) |-> g.nodes[h + 1]],
     edges |-> [e \in edge_indices(g) |-> g.edges[e + 1]]]

\* C3: __setstate__ of __getstate__ on a new container gives the same live node
\* handles, node payloads, live edge handles, endpoints and edge payloads
C3_RoundTrip ==
    ~panicked =>
        LET r == __setstate__(EmptyGraph, __getstate__(graph, node_removed))
        IN r.ok /\ Live(r.g) = Live(graph)

\* C4: while node_removed is false the live node handles are exactly
\* 0 .. node_count - 1
C4_FlagFalseMeansNoHoles ==
    ~node_removed => node_indices(graph) = 0 .. node_count(graph) - 1

\* the vacant slots of a container, and the live edges joining a and b
VacantNodes(g) == {h \in 0 .. Len(g.nodes) - 1 : g.nodes[h + 1] = Vacant}
VacantEdges(g) == {e \in 0 .. Len(g.edges) - 1 : g.edges[e + 1].w = Vacant}
Between(g, a, b) ==
    {e \in edge_indices(g) : {g.edges[e + 1].a, g.edges[e + 1].b} = {a, b}}

\* C5: add_node, add_edge, remove_node, remove_edge, remove_edge_from_index and
\* contract_nodes renumber nothing: a node live before and after the call keeps
\* its handle's payload, an edge live before and after keeps its endpoints (and
\* its payload, unless add_edge updated it); the only handle that becomes live
\* is the one returned (a contract_nodes that fails leaves its new node in a
\* slot that was not live), and a removed node's handle is not live afterwards
C5_HandlesStable ==
    [][last'.op \in {"add_node", "add_edge", "remove_node", "remove_edge",
                     "remove_edge_from_index", "contract_nodes"} =>
         /\ \A h \in node_indices(graph) \cap node_indices(graph') :
                graph'.nodes[h + 1] = graph.nodes[h + 1]
         /\ \A e \in edge_indices(graph) \cap edge_indices(graph') :
                /\ graph'.edges[e + 1].a = graph.edges[e + 1].a
                /\ graph'.edges[e + 1].b = graph.edges[e + 1].b
                /\ \/ graph'.edges[e + 1].w = graph.edges[e + 1].w
                   \/ last'.op = "add_edge" /\ last'.ret = e
         /\ node_indices(graph') \ node_indices(graph) \subseteq
                IF last'.op = "add_node" \/ last'.ret # End
                THEN {last'.ret}
                ELSE IF last'.op = "contract_nodes"
                THEN {Len(graph.nodes)} \cup VacantNodes(graph)
                ELSE {}
         /\ edge_indices(graph') \ edge_indices(graph) \subseteq
                IF last'.op = "add_edge" THEN {last'.ret}
                ELSE IF last'.op = "contract_nodes" THEN edge_indices(graph')
                ELSE {}
         /\ edge_indices(graph) \ edge_indices(graph') # {} =>
                last'.op \in {"remove_node", "remove_edge",
                              "remove_edge_from_index", "contract_nodes"}
         /\ last'.op = "remove_node" =>
                node_indices(graph') = node_indices(graph) \ {last'.a}]_vars

\* a node was removed from under higher handles and an edge between them stayed
C5_Witness ==
    /\ last.op = "remove_node"
    /\ graph.free_node # <<>>
    /\ Head(graph.free_node) = last.a
    /\ \E e \in edge_indices(graph) :
          graph.edges[e + 1].a > last.a /\ graph.edges[e + 1].b > last.a

\* C6: when a node slot is vacant add_node returns a vacant slot's handle and
\* adds no slot; when an edge slot is vacant an add_edge that creates an edge
\* returns a vacant edge slot's handle; with slots 0 .. 4 issued and only 2
\* vacant, add_node returns 2
C6_SlotReuse ==
    [][/\ last'.op = "add_node" /\ VacantNodes(graph) # {} =>
            /\ last'.ret \in VacantNodes(graph)
            /\ Len(graph'.nodes) = Len(graph.nodes)
       /\ ( /\ last'.op = "add_edge"
            /\ last'.ret # End
            /\ last'.ret \notin edge_indices(graph)
            /\ VacantEdges(graph) # {} ) =>
            /\ last'.ret \in VacantEdges(graph)
            /\ Len(graph'.edges) = Len(graph.edges)
       /\ ( /\ last'.op = "add_node"
            /\ Len(graph.nodes) = 5
            /\ node_indices(graph) = {0, 1, 3, 4} ) => last'.ret = 2]_vars

\* five slots, node 2 removed, and add_node has just returned 2
C6_Witness ==
    /\ last.op = "add_node"
    /\ last.ret = 2
    /\ Len(graph.nodes) = 5
    /\ node_indices(graph) = 0 .. 4

\* C7 as stated: add_node returns the smallest vacant handle when there is
\* one, whatever the order of the removals, and the node bound when there is none
C7_LowestFreeFirst ==
    [][last'.op = "add_node" =>
         last'.ret = IF VacantNodes(graph) # {}
                     THEN CHOOSE h \in VacantNodes(graph) :
                              \A k \in VacantNodes(graph) : h <= k
                     ELSE node_bound(graph)]_vars

\* C7 amended: add_node returns the handle freed last among those still vacant
\* (the head of the free list), and the node bound when no handle is vacant
C7_LastFreedFirst ==
    [][last'.op = "add_node" =>
         /\ VacantNodes(graph) = {} <=> graph.free_node = <<>>
         /\ last'.ret = IF VacantNodes(graph) # {}
                        THEN Head(graph.free_node)
                        ELSE node_bound(graph)]_vars

\* add_node has returned a handle while a smaller one is still vacant
C7_Witness ==
    /\ last.op = "add_node"
    /\ \E h \in VacantNodes(graph) : h < last.ret

C9_BoundFiveCountFour ==
    [][( /\ Len(graph.nodes) = 5
         /\ node_indices(graph) = {0, 1, 3, 4}
         /\ last'.op = "add_node" ) =>
         /\ node_bound(graph') = 5
         /\ node_count(graph') = 4]_vars

\* C9 amended: with slots 0 .. 4 issued and node 2 removed the node bound is 5
\* and the node count 4; after one more add_node the bound is 5 and the count 5
C9_BoundFiveCountFive ==
    [][( /\ Len(graph.nodes) = 5
         /\ node_indices(graph) = {0, 1, 3, 4}
         /\ last'.op = "add_node" ) =>
         /\ node_bound(graph) = 5
         /\ node_count(graph) = 4
         /\ last'.ret = 2
         /\ node_bound(graph') = 5
         /\ node_count(graph') = 5]_vars

\* five slots, node 2 removed just before, and one more node has been added
C9_Witness ==
    /\ last.op = "add_node"
    /\ last.ret = 2
    /\ Len(graph.nodes) = 5
    /\ node_count(graph) = 5
    /\ graph.free_node = <<>>

\* C10: on a multigraph = false container holding an edge between a and b,
\* add_edge(a, b, w), in either orientation, returns the handle of an edge that
\* joined a and b, sets its payload to w and changes nothing else: the live
\* edges, their number and their stored endpoints stay; and after
\* add_edges_from the edge of its last entry carries that entry's payload,
\* earlier entries for the same pair having added no edge of their own
C10_OverwriteExisting ==
    [][/\ ( /\ last'.op = "add_edge"
            /\ last'.ret # End
            /\ ~multigraph
            /\ Between(graph, last'.a, last'.b) # {} ) =>
            /\ last'.ret \in Between(graph, last'.a, last'.b)
            /\ graph'.edges[last'.ret + 1].w = last'.w
            /\ edge_count(graph') = edge_count(graph)
            /\ edge_indices(graph') = edge_indices(graph)
            /\ \A e \in edge_indices(graph) :
                  /\ graph'.edges[e + 1].a = graph.edges[e + 1].a
                  /\ graph'.edges[e + 1].b = graph.edges[e + 1].b
                  /\ e # last'.ret => graph'.edges[e + 1].w = graph.edges[e + 1].w
       /\ ( /\ last'.op = "add_edges_from"
            /\ last'.ret # End
            /\ ~multigraph
            /\ last'.k > 0 ) =>
            /\ last'.ret \in Between(graph', last'.a, last'.b)
            /\ graph'.edges[last'.ret + 1].w = last'.w
            /\ Cardinality(Between(graph', last'.a, last'.b))
                 = IF Between(graph, last'.a, last'.b) = {} THEN 1
                   ELSE Cardinality(Between(graph, last'.a, last'.b))]_vars

\* add_edge on a multigraph = false container has returned the handle of an
\* edge stored the other way round, with the payload it was given
C10_Witness ==
    /\ ~multigraph
    /\ last.op = "add_edge"
    /\ last.ret # End
    /\ last.a # last.b
    /\ edge_count(graph) = 1
    /\ graph.edges[last.ret + 1].a = last.b
    /\ graph.edges[last.ret + 1].b = last.a
    /\ graph.edges[last.ret + 1].w = last.w

\* C11: add_edge(a, b, w) with a or b not a live node returns Err (no panic)
\* and leaves the container as it was: same nodes, same edges, same payloads,
\* same counts, same free slots, for both multigraph settings
C11_AddEdgeInvalidEndpoint ==
    [][( /\ last'.op = "add_edge"
         /\ \/ ~contains_node(graph, last'.a)
            \/ ~contains_node(graph, last'.b) ) =>
         /\ last'.ret = End
         /\ ~panicked'
         /\ graph' = graph
         /\ node_count(graph') = node_count(graph)
         /\ edge_count(graph') = edge_count(graph)
         /\ node_removed' = node_removed]_vars

\* add_edge has returned Err for a removed endpoint on a container that holds
\* an edge and a free edge slot
C11_Witness ==
    /\ last.op = "add_edge"
    /\ last.ret = End
    /\ ~panicked
    /\ last.a \in VacantNodes(graph) \/ last.b \in VacantNodes(graph)
    /\ edge_count(graph) > 0
    /\ graph.free_edge # <<>>

\* the weighted form of a list of pairs, as extend_from_edge_list builds it
WithNone(l) == [i \in 1 .. Len(l) |-> <<l[i][1], l[i][2], NoneW>>]

\* C12: from every container state, holes included, extend_from_edge_list and
\* extend_from_weighted_edge_list complete without a panic for every list;
\* afterwards every listed handle is a live node, an edge joins every listed
\* pair, and the nodes that were added carry None
C12_ExtendCompletes ==
    ~panicked =>
        \A l \in EdgeLists \cup {WithNone(p) : p \in PairLists} :
            LET r == ExtendFrom(graph, multigraph, l)
            IN /\ r.ok
               /\ \A i \in 1 .. Len(l) :
                     /\ contains_node(r.g, l[i][1])
                     /\ contains_node(r.g, l[i][2])
                     /\ Between(r.g, l[i][1], l[i][2]) # {}
               /\ \A h \in node_indices(r.g) \ node_indices(graph) :
                     r.g.nodes[h + 1] = NoneW

\* the live edges with h as an endpoint
Incident(g, h) ==
    {e \in edge_indices(g) : g.edges[e + 1].a = h \/ g.edges[e + 1].b = h}

\* C13: remove_node(h) on a live node h removes h and exactly the edges
\* incident to h, a self-loop once: h is not live afterwards, the node count is
\* one less, the edge count is less by the number of incident edges, and every
\* other node and every edge not incident to h is live as before with the same
\* endpoints and payload
C13_RemoveNodeFrame ==
    [][( /\ last'.op = "remove_node"
         /\ contains_node(graph, last'.a) ) =>
         /\ node_indices(graph') = node_indices(graph) \ {last'.a}
         /\ node_count(graph') = node_count(graph) - 1
         /\ edge_indices(graph') = edge_indices(graph) \ Incident(graph, last'.a)
         /\ edge_count(graph')
              = edge_count(graph) - Cardinality(Incident(graph, last'.a))
         /\ Incident(graph', last'.a) = {}
         /\ \A h \in node_indices(graph') :
                graph'.nodes[h + 1] = graph.nodes[h + 1]
         /\ \A e \in edge_indices(graph') :
                graph'.edges[e + 1] = graph.edges[e + 1]]_vars

\* a node has just been removed, edge slots are free and an edge between other
\* nodes is still live
C13_Witness ==
    /\ last.op = "remove_node"
    /\ graph.free_node # <<>>
    /\ Head(graph.free_node) = last.a
    /\ graph.free_edge # <<>>
    /\ \E e \in edge_indices(graph) :
          graph.edges[e + 1].a # last.a /\ graph.edges[e + 1].b # last.a

\* the entries of l before position j that name the unordered pair {a, b}
EntriesBefore(l, j, a, b) ==
    Cardinality({i \in 1 .. j - 1 : {l[i][1], l[i][2]} = {a, b}})

\* the first entry of l that finds no edge left between its nodes, earlier
\* entries having taken one edge each; Len(l) + 1 when there is none
FirstMissing(g, l) ==
    LET missing == {i \in 1 .. Len(l) :
                      Cardinality(Between(g, l[i][1], l[i][2]))
                        <= EntriesBefore(l, i, l[i][1], l[i][2])}
    IN IF missing = {} THEN Len(l) + 1
       ELSE CHOOSE i \in missing : \A k \in missing : i <= k

\* C14: remove_edges_from returns Err(NoEdgeBetweenNodes) exactly when some
\* entry finds no edge between its nodes, and stops at the first such entry:
\* every entry before it has removed exactly one edge between its pair, no
\* other edge is removed and the edges that stay are unchanged
C14_RemoveEdgesFrom ==
    ~panicked =>
        \A l \in RemoveLists :
            LET r == RemoveEdgesFrom(graph, l)
                j == FirstMissing(graph, l)
            IN /\ r.ok <=> j = Len(l) + 1
               /\ r.k = j - 1
               /\ edge_count(r.g) = edge_count(graph) - (j - 1)
               /\ \A a \in Handles, b \in Handles :
                     Cardinality(Between(r.g, a, b))
                       = Cardinality(Between(graph, a, b))
                           - EntriesBefore(l, j, a, b)
               /\ edge_indices(r.g) \subseteq edge_indices(graph)
               /\ \A e \in edge_indices(r.g) : r.g.edges[e + 1] = graph.edges[e + 1]
               /\ r.g.nodes = graph.nodes

\* remove_edges_from has returned Err after removing an edge, and an edge is
\* still live
C14_Witness ==
    /\ last.op = "remove_edges_from"
    /\ last.ret = End
    /\ last.k > 0
    /\ edge_count(graph) > 0

\* C15: degree(n) of a live node n is the number of live edges incident to n
\* that are not self-loops plus twice the number of live self-loops on n; a
\* node whose only edge is one self-loop has degree 2
C15_Degree ==
    ( /\ last.op = "degree"
      /\ contains_node(graph, last.a) ) =>
        LET loops == {e \in Incident(graph, last.a) :
                        graph.edges[e + 1].a = graph.edges[e + 1].b}
        IN /\ last.ret = Cardinality(Incident(graph, last.a) \ loops)
                           + 2 * Cardinality(loops)
           /\ ( Cardinality(loops) = 1 /\ Incident(graph, last.a) = loops ) =>
                 last.ret = 2

\* degree has been asked of a node with a self-loop and another edge
C15_Witness ==
    /\ last.op = "degree"
    /\ last.ret = 3
    /\ \E e \in Incident(graph, last.a) :
          graph.edges[e + 1].a = graph.edges[e + 1].b

\* the live nodes of g that the list l names, and the live edges of g joining
\* a node of S to t
LiveIn(g, l) == {l[i] : i \in 1 .. Len(l)} \cap node_indices(g)
EdgesTo(g, S, t) ==
    {e \in edge_indices(g) :
        \E x \in S : {g.edges[e + 1].a, g.edges[e + 1].b} = {x, t}}

\* C16: on a multigraph = false container contract_nodes(S, p) without a
\* combine function leaves, for every node t outside S, exactly one edge
\* between the new node and t when a node of S was adjacent to t and none
\* otherwise; with edges (0,2) and (1,2) alone, contracting [0, 1] leaves one
\* edge, between the new node and 2
C16_ContractCollapse ==
    ( ~panicked /\ ~multigraph ) =>
        \A l \in ContractLists, w \in NodeWeights :
            LET r == contract_graph(graph, multigraph, l, w, "none")
                S == LiveIn(graph, l)
            IN /\ r.idx # End
               /\ \A t \in node_indices(graph) \ S :
                     Cardinality(Between(r.g, r.idx, t))
                       = IF EdgesTo(graph, S, t) # {} THEN 1 ELSE 0
               /\ ( /\ l = <<0, 1>>
                    /\ node_indices(graph) = {0, 1, 2}
                    /\ edge_count(graph) = 2
                    /\ Between(graph, 0, 2) # {}
                    /\ Between(graph, 1, 2) # {} ) =>
                     /\ edge_count(r.g) = 1
                     /\ Cardinality(Between(r.g, r.idx, 2)) = 1

\* nodes 0 and 1, each joined to 2, have been contracted into node 3 on a
\* multigraph = false container: one edge is live, between 3 and 2
C16_Witness ==
    /\ ~multigraph
    /\ last.op = "contract_nodes"
    /\ last.ret = 3
    /\ node_indices(graph) = {2, 3}
    /\ edge_count(graph) = 1
    /\ Cardinality(Between(graph, 3, 2)) = 1
    /\ Len(graph.free_edge) = 2

\* C17 as stated: on a multigraph = true container, with or without a combine
\* function, the edges between the new node and a node t outside S are as many
\* as the edges between S and t were
C17_ParallelKeptAlways ==
    ( ~panicked /\ multigraph ) =>
        \A l \in ContractLists, w \in NodeWeights, c \in ComboFns :
            LET r == contract_graph(graph, multigraph, l, w, c)
                S == LiveIn(graph, l)
            IN r.idx # End =>
                 \A t \in node_indices(graph) \ S :
                     Cardinality(Between(r.g, r.idx, t))
                       = Cardinality(EdgesTo(graph, S, t))

\* C17 amended: on a multigraph = true container contract_nodes without a
\* combine function keeps every edge between S and t as an edge between the
\* new node and t; with a combine function that returns, one edge joins the
\* new node and t when S was adjacent to t, and none otherwise
C17_ParallelKeptWithoutCombine ==
    ( ~panicked /\ multigraph ) =>
        \A l \in ContractLists, w \in NodeWeights, c \in ComboFns :
            LET r == contract_graph(graph, multigraph, l, w, c)
                S == LiveIn(graph, l)
            IN /\ c = "none" => r.idx # End
               /\ r.idx # End =>
                    \A t \in node_indices(graph) \ S :
                        Cardinality(Between(r.g, r.idx, t))
                          = IF c = "none" THEN Cardinality(EdgesTo(graph, S, t))
                            ELSE IF EdgesTo(graph, S, t) # {} THEN 1 ELSE 0

\* nodes 0 and 1, each joined to 2, have been contracted into node 3 on a
\* multigraph: two edges join 3 and 2
C17_Witness ==
    /\ multigraph
    /\ last.op = "contract_nodes"
    /\ last.ret = 3
    /\ node_indices(graph) = {2, 3}
    /\ Cardinality(Between(graph, 3, 2)) = 2

\* C18: contract_nodes(S, p) that returns gives a handle that was not live, is
\* live afterwards and carries p; the live nodes of S are no longer live and
\* the handles of S that were not live change nothing; the nodes outside S
\* keep their payloads and the edges with both ends outside S stay as they
\* were; with S empty the container is the one add_node(p) gives
C18_ContractNodes ==
    ~panicked =>
        \A l \in ContractLists, w \in NodeWeights, c \in ComboFns :
            LET r == contract_graph(graph, multigraph, l, w, c)
                S == LiveIn(graph, l)
                out == {e \in edge_indices(graph) :
                          /\ graph.edges[e + 1].a \notin S
                          /\ graph.edges[e + 1].b \notin S}
            IN r.idx # End =>
                 /\ r.idx \notin node_indices(graph)
                 /\ node_indices(r.g) = (node_indices(graph) \ S) \cup {r.idx}
                 /\ r.g.nodes[r.idx + 1] = w
                 /\ \A h \in node_indices(graph) \ S :
                       r.g.nodes[h + 1] = graph.nodes[h + 1]
                 /\ \A e \in out :
                       /\ e \in edge_indices(r.g)
                       /\ r.g.edges[e + 1] = graph.edges[e + 1]
                 /\ r = contract_graph(graph, multigraph,
                                       SelectSeq(l, LAMBDA h : contains_node(graph, h)),
                                       w, c)
                 /\ S = {} => /\ r.g = g_add_node(graph, w).g
                              /\ r.idx = g_add_node(graph, w).idx

\* a contraction has removed node 0 and left node 1, with an edge on it, alone
\* beside the new node
C18_Witness ==
    /\ last.op = "contract_nodes"
    /\ last.ret # End
    /\ contains_node(graph, last.ret)
    /\ 0 \in VacantNodes(graph)
    /\ contains_node(graph, 1)
    /\ Incident(graph, 1) # {}

\* C19: subgraph_with_nodemap(nodes) leaves the container as it was and
\* returns a container whose handles are 0 .. k-1, k being the number of
\* distinct live handles of nodes, with a map from new handle to original
\* handle that is increasing and covers exactly those handles; two selected
\* nodes are joined in the result by as many edges as in the original and the
\* result has no other edge; nodes 0..3 and the list [1, 3] give {0: 1, 1: 3}
C19_SubgraphWithNodemap ==
    [][ last'.op = "subgraph_with_nodemap" =>
          LET l == last'.nodes
              r == last'.out
              m == r.node_map
              S == LiveIn(graph, l)
              k == Cardinality(S)
          IN /\ graph' = graph
             /\ node_removed' = node_removed
             /\ DOMAIN m = 0 .. k - 1
             /\ Len(r.g.nodes) = k
             /\ node_indices(r.g) = 0 .. k - 1
             /\ {m[n] : n \in 0 .. k - 1} = S
             /\ \A i \in 0 .. k - 1, j \in 0 .. k - 1 :
                   /\ i < j => m[i] < m[j]
                   /\ Cardinality(Between(r.g, i, j))
                        = Cardinality(Between(graph, m[i], m[j]))
             /\ edge_count(r.g)
                  = Cardinality({e \in edge_indices(graph) :
                                    /\ graph.edges[e + 1].a \in S
                                    /\ graph.edges[e + 1].b \in S})
             /\ ( node_indices(graph) = 0 .. 3 /\ l = <<1, 3>> ) =>
                   m = (0 :> 1 @@ 1 :> 3)
      ]_vars

\* nodes 0..3 with an edge between 1 and 3 and an edge between 0 and 1:
\* subgraph_with_nodemap([1, 3]) has returned two nodes, one edge and the map
\* {0: 1, 1: 3}
C19_Witness ==
    /\ last.op = "subgraph_with_nodemap"
    /\ last.nodes = <<1, 3>>
    /\ node_indices(graph) = 0 .. 3
    /\ Between(graph, 1, 3) # {}
    /\ Between(graph, 0, 1) # {}
    /\ last.out.node_map = (0 :> 1 @@ 1 :> 3)
    /\ edge_count(last.out.g) = 1

\* the unordered pairs of the list l that an edge of g joins
ListedPairs(g, l) ==
    {{l[i][1], l[i][2]} : i \in {j \in 1 .. Len(l) : Between(g, l[j][1], l[j][2]) # {}}}

Kept(other, node_filter) ==
    {h \in node_indices(other) : filter_fn(node_filter, other.nodes[h + 1])}
OtherEnd(g, e, node) ==
    IF g.edges[e + 1].a = node THEN g.edges[e + 1].b ELSE g.edges[e + 1].a
Returned(g, e, edge_map_fn) ==
    map_fn(edge_map_fn, g.edges[e + 1].a, g.edges[e + 1].b, g.edges[e + 1].w)
Handed(calls) == {calls[i] : i \in 1 .. Len(calls)}

\* C21: substitute_node_with_subgraph(node, ...) with node not live returns
\* Err(IndexError) with the container as it was, no node_filter call and no
\* edge_map_fn call
C21_SubstituteNotFound ==
    [][ ( /\ last'.op = "substitute_node_with_subgraph"
          /\ ~contains_node(graph, last'.a) ) =>
            /\ graph' = graph
            /\ node_removed' = node_removed
            /\ ~panicked'
            /\ last'.k = 0
            /\ last'.filtered = 0
            /\ last'.calls = <<>>
      ]_vars

\* node 3 of a container of three joined nodes was handed in: Err, three live
\* nodes and their edges
C21_Witness ==
    /\ last.op = "substitute_node_with_subgraph"
    /\ last.a = 3
    /\ last.k = 0
    /\ node_indices(graph) = {0, 1, 2}
    /\ edge_count(graph) = 2

\* C22: after substitute_node_with_subgraph(node, other, edge_map_fn) returns
\* Ok with a node of other kept, node is not live, the map sends the kept nodes
\* of other to distinct nodes of self that are live and were not, and each edge
\* that joined another node A to node with payload w and for which edge_map_fn
\* returned h has an edge with payload w between A and the image of h, the
\* edges of node being gone; with no node kept node and its edges are removed
\* and the map is empty. With edges 0 -> 1 and 1 -> 2, other of two nodes and
\* edge_map_fn returning 0, edges join 0 and 2 to the image of 0
C22_SubstituteRoutes ==
    ~panicked =>
        \A n \in node_indices(graph), o \in {Other2, Other3}, cb \in Callbacks :
            LET r == substitute_graph(graph, multigraph, n, o, cb[1], cb[2])
                kept == Kept(o, cb[2])
                img(h) == r.map[h + 1]
            IN r.ok =>
                 /\ ~contains_node(r.g, n)
                 /\ \A e \in Incident(graph, n) : ~contains_edge(r.g, e)
                 /\ \A h \in node_indices(o) \ kept : img(h) = End
                 /\ kept = {} =>
                       /\ node_indices(r.g) = node_indices(graph) \ {n}
                       /\ edge_indices(r.g) = edge_indices(graph) \ Incident(graph, n)
                       /\ r.calls = <<>>
                 /\ kept # {} =>
                       /\ \A h \in kept :
                             /\ contains_node(r.g, img(h))
                             /\ img(h) \notin node_indices(graph)
                             /\ \A h2 \in kept : h2 # h => img(h2) # img(h)
                       /\ \A e \in Handed(r.calls) :
                             LET A == OtherEnd(graph, e, n)
                                 h == Returned(graph, e, cb[1])
                             IN ( A # n /\ h # End ) =>
                                   \E e2 \in Between(r.g, A, img(h)) :
                                       r.g.edges[e2 + 1].w = graph.edges[e + 1].w
                       /\ ( /\ n = 1 /\ o = Other2 /\ cb = <<"zero", "all">>
                            /\ edge_count(graph) = 2
                            /\ \E e \in edge_indices(graph) :
                                  graph.edges[e + 1].a = 0 /\ graph.edges[e + 1].b = 1
                            /\ \E e \in edge_indices(graph) :
                                  graph.edges[e + 1].a = 1 /\ graph.edges[e + 1].b = 2 ) =>
                              /\ Between(r.g, 0, img(0)) # {}
                              /\ Between(r.g, 2, img(0)) # {}

\* node 1, with an edge from 0 and an edge to 2, has been replaced by two
\* joined nodes 3 and 4: 0 and 2 are joined to 3
C22_Witness ==
    /\ last.op = "substitute_node_with_subgraph"
    /\ last.a = 1
    /\ last.k = 1
    /\ Len(last.calls) = 2
    /\ node_indices(graph) = {0, 2, 3, 4}
    /\ Between(graph, 0, 3) # {}
    /\ Between(graph, 2, 3) # {}
    /\ Between(graph, 3, 4) # {}
    /\ edge_count(graph) = 3

\* C26: substitute_node_with_subgraph hands every edge that joins node to
\* another node to edge_map_fn exactly once, whichever way round the edges are
\* stored
C26_EveryEdgeMappedOnce ==
    ~panicked =>
        \A n \in node_indices(graph), o \in {Other2, Other3},
           cb \in {<<"zero", "all">>, <<"none", "all">>} :
            LET r == substitute_graph(graph, multigraph, n, o, cb[1], cb[2])
            IN \A e \in Incident(graph, n) :
                  OtherEnd(graph, e, n) # n =>
                     Cardinality({i \in 1 .. Len(r.calls) : r.calls[i] = e}) = 1

\* C27: when edge_map_fn returns a handle of other that has no image,
\* substitute_node_with_subgraph returns Err(IndexError) and leaves node live
\* with the edges it had, the nodes it had, the kept nodes of other copied with
\* their edges, and live endpoints on every live edge
C27_NoRollback ==
    ~panicked =>
        \A n \in node_indices(graph), o \in {Other2, Other3}, cb \in Callbacks :
            LET r == substitute_graph(graph, multigraph, n, o, cb[1], cb[2])
                kept == Kept(o, cb[2])
                img(h) == r.map[h + 1]
            IN ( \E e \in Handed(r.calls) :
                    /\ Returned(graph, e, cb[1]) # End
                    /\ Returned(graph, e, cb[1]) \notin kept ) =>
                 /\ ~r.ok
                 /\ \A h \in node_indices(graph) :
                       /\ contains_node(r.g, h)
                       /\ r.g.nodes[h + 1] = graph.nodes[h + 1]
                 /\ \A e \in Incident(graph, n) :
                       /\ contains_edge(r.g, e)
                       /\ r.g.edges[e + 1] = graph.edges[e + 1]
                 /\ \A h \in kept :
                       /\ contains_node(r.g, img(h))
                       /\ img(h) \notin node_indices(graph)
                       /\ r.g.nodes[img(h) + 1] = o.nodes[h + 1]
                 /\ \A e \in edge_indices(o) :
                       ( o.edges[e + 1].a \in kept /\ o.edges[e + 1].b \in kept ) =>
                          Between(r.g, img(o.edges[e + 1].a), img(o.edges[e + 1].b)) # {}
                 /\ \A e \in edge_indices(r.g) :
                       /\ contains_node(r.g, r.g.edges[e + 1].a)
                       /\ contains_node(r.g, r.g.edges[e + 1].b)

\* edge_map_fn returned handle 1 of other, which node_filter had dropped: Err,
\* node 1 is live with its two edges and the kept node of other is node 3
C27_Witness ==
    /\ last.op = "substitute_node_with_subgraph"
    /\ last.a = 1
    /\ last.k = 0
    /\ last.filtered = 2
    /\ Len(last.calls) > 0
    /\ node_indices(graph) = {0, 1, 2, 3}
    /\ Cardinality(Incident(graph, 1)) = 2

\* compose's node_map names live nodes only: its keys in g, its values in other
NamesLive(g, other, node_map) ==
    \A i \in 1 .. Len(node_map) :
        /\ contains_node(g, node_map[i][1])
        /\ contains_node(other, node_map[i][2])

\* C23: compose(other, node_map) with node_map naming live nodes only returns
\* a map with one entry per live node of other, injective, onto nodes of self
\* that were not live; self gains an edge between the images of the ends of
\* each live edge of other and an edge between s and the image of o for each
\* entry s -> (o, w), and nothing else; each node and edge of self that was
\* live keeps its handle, endpoints and payload
C23_Compose ==
    ~panicked =>
        \A o \in OtherGraphs, m \in NodeMaps :
            NamesLive(graph, o, m) =>
                LET r == compose_graph(graph, o, m)
                    img(h) == r.map[h + 1]
                IN /\ r.ok
                   /\ \A h \in 0 .. Len(o.nodes) - 1 :
                         IF contains_node(o, h)
                         THEN /\ contains_node(r.g, img(h))
                              /\ img(h) \notin node_indices(graph)
                              /\ r.g.nodes[img(h) + 1] = o.nodes[h + 1]
                              /\ \A h2 \in node_indices(o) : h2 # h => img(h2) # img(h)
                         ELSE img(h) = End
                   /\ node_count(r.g) = node_count(graph) + node_count(o)
                   /\ \A e \in edge_indices(o) :
                         \E e2 \in Between(r.g, img(o.edges[e + 1].a), img(o.edges[e + 1].b)) :
                             /\ e2 \notin edge_indices(graph)
                             /\ r.g.edges[e2 + 1].w = o.edges[e + 1].w
                   /\ \A i \in 1 .. Len(m) :
                         \E e2 \in Between(r.g, m[i][1], img(m[i][2])) :
                             /\ e2 \notin edge_indices(graph)
                             /\ r.g.edges[e2 + 1].w = m[i][3]
                   /\ edge_count(r.g) = edge_count(graph) + edge_count(o) + Len(m)
                   /\ \A h \in node_indices(graph) : r.g.nodes[h + 1] = graph.nodes[h + 1]
                   /\ \A e \in edge_indices(graph) :
                         /\ contains_edge(r.g, e)
                         /\ r.g.edges[e + 1] = graph.edges[e + 1]

\* two joined nodes have been composed onto nodes 0 and 1 joined by an edge,
\* with node 1 attached to the image of node 1 of other
C23_Witness ==
    /\ last.op = "compose"
    /\ last.k = 2
    /\ ~panicked
    /\ node_indices(graph) = {0, 1, 2, 3}
    /\ Between(graph, 0, 1) # {}
    /\ Between(graph, 2, 3) # {}
    /\ Between(graph, 1, 3) # {}
    /\ edge_count(graph) = 3

\* C25: has_parallel_edges() is true iff two distinct live edges join the same
\* unordered pair of nodes
C25_HasParallelEdges ==
    ~panicked =>
        ( HasParallelEdges(graph, multigraph) <=>
            \E a \in node_indices(graph), b \in node_indices(graph) :
                Cardinality(Between(graph, a, b)) > 1 )

\* C28: compose returns; it does not unwind with a panic
C28_ComposeTypedFailure == last.op = "compose" => ~panicked

\* the order-preserving map of the live handles of g onto 0 .. n-1, and the
\* edges of the directed container d from a to b with payload w
Rank(g, h) == Cardinality({x \in node_indices(g) : x < h})
Arcs(d, a, b, w) ==
    {e \in edge_indices(d) :
        d.edges[e + 1].a = a /\ d.edges[e + 1].b = b /\ d.edges[e + 1].w = w}

\* C24: to_directed() leaves the container as it was and returns a directed
\* container with handles 0 .. n-1 for its n live nodes, in their order, and
\* twice its edges: each live edge (u, v, w) gives an edge from m(u) to m(v)
\* and an edge from m(v) to m(u) with payload w, and there is no other edge;
\* the multigraph flag is copied
C24_ToDirected ==
    ~panicked =>
        LET r == to_directed_graph(graph, multigraph)
            d == r.graph
        IN /\ node_indices(d) = 0 .. node_count(graph) - 1
           /\ Len(d.nodes) = node_count(graph)
           /\ \A h \in node_indices(graph) : d.nodes[Rank(graph, h) + 1] = graph.nodes[h + 1]
           /\ edge_count(d) = 2 * edge_count(graph)
           /\ Cardinality(edge_indices(d)) = 2 * edge_count(graph)
           /\ \A u \in node_indices(graph), v \in node_indices(graph), w \in EdgeWeights :
                 Cardinality(Arcs(d, Rank(graph, u), Rank(graph, v), w))
                   = (IF u = v THEN 2 ELSE 1)
                     * Cardinality({e \in Between(graph, u, v) : graph.edges[e + 1].w = w})
           /\ r.multigraph = multigraph
           /\ ~r.node_removed

\* to_directed() has returned two nodes and two edges for a container whose
\* node 0 was removed and whose nodes 1 and 2 are joined by one edge
C24_Witness ==
    /\ last.op = "to_directed"
    /\ last.ret = 2
    /\ last.k = 2
    /\ node_indices(graph) = {1, 2}
    /\ Cardinality(Between(graph, 1, 2)) = 1

\* C29: remove_node(h) and remove_edge_from_index(e) with a handle that is not
\* live (remove_nodes_from is remove_node on each entry) return and change
\* nothing: the live nodes and edges, their payloads and the node_removed flag
\* are as before
C29_RemoveAbsentNoEffect ==
    [][ ( \/ /\ last'.op = "remove_node"
             /\ ~contains_node(graph, last'.a)
          \/ /\ last'.op = "remove_edge_from_index"
             /\ ~contains_edge(graph, last'.a) ) =>
            /\ Live(graph') = Live(graph)
            /\ node_removed' = node_removed
            /\ ~panicked'
      ]_vars

\* the handles next handed out by the container g
NextNode(g) == g_add_node(g, 1).idx
NextEdge(g) == g_add_edge(g, 0, 1, 1).idx
HolesBelow(live, bound) == (0 .. bound - 1) \ live

====
